---- MODULE Spec2Model ----
(***************************************************************************)
(* Room booking CLI (backendsutt.py): the Room entity, the RoomManager     *)
(* registry with its CSV persistence, and the menu session that drives     *)
(* them.  Text is modelled as a sequence of one-character strings, so that *)
(* str.strip, str.split, int() and str() are computed, not assumed.        *)
(***************************************************************************)
EXTENDS Integers, Sequences, FiniteSets, TLC

(***************************************************************************)
(* Bounds of the model.                                                    *)
(***************************************************************************)
\* Number of menu choices 1-5 a session dispatches before it must end.
MaxOps == 3

(***************************************************************************)
(* Program constants.                                                      *)
(***************************************************************************)
\* Lowest and highest hour accepted (ask_int bounds, load's range check).
MinHour == 0
MaxHour == 23
\* Lowest capacity the create-room prompt accepts.
MinCapacity == 0

CSV_HEADERS == <<"room_no", "building", "capacity", "booked_hours">>

\* Python's None, as returned by DictReader for a short row.
None == <<"<None>">>

(***************************************************************************)
(* Text helpers: what the str and int built-ins do.                        *)
(***************************************************************************)
Digits == <<"0", "1", "2", "3", "4", "5", "6", "7", "8", "9">>

IsSpace(c) == c = " "

IsDigit(c) == \E i \in 1..10 : Digits[i] = c

DigitVal(c) == (CHOOSE i \in 1..10 : Digits[i] = c) - 1

RECURSIVE LStrip(_)
LStrip(s) ==
    IF s # <<>> /\ IsSpace(Head(s)) THEN LStrip(Tail(s)) ELSE s

RECURSIVE RStrip(_)
RStrip(s) ==
    IF s # <<>> /\ IsSpace(s[Len(s)]) THEN RStrip(SubSeq(s, 1, Len(s) - 1)) ELSE s

\* str.strip()
Strip(s) == RStrip(LStrip(s))

\* str.lower() on the letters the model uses
Lower(s) ==
    [i \in 1..Len(s) |->
        CASE s[i] = "M" -> "m"
          [] s[i] = "N" -> "n"
          [] s[i] = "A" -> "a"
          [] s[i] = "B" -> "b"
          [] OTHER -> s[i]]

RECURSIVE NatToStr(_)
NatToStr(n) ==
    IF n < 10 THEN <<Digits[n + 1]>>
    ELSE NatToStr(n \div 10) \o <<Digits[(n % 10) + 1]>>

\* str(n) for an int
IntToStr(n) == IF n < 0 THEN <<"-">> \o NatToStr(0 - n) ELSE NatToStr(n)

RECURSIVE DigitsVal(_, _)
DigitsVal(s, acc) ==
    IF s = <<>> THEN acc ELSE DigitsVal(Tail(s), acc * 10 + DigitVal(Head(s)))

AllDigits(s) == s # <<>> /\ \A i \in 1..Len(s) : IsDigit(s[i])

\* int(s): surrounding whitespace and one sign are accepted; anything else
\* raises ValueError (ok = FALSE).
StrToInt(s) ==
    LET t == Strip(s)
        signed == t # <<>> /\ Head(t) \in {"-", "+"}
        body == IF signed THEN Tail(t) ELSE t
    IN  IF AllDigits(body)
        THEN [ok |-> TRUE,
              val |-> IF signed /\ Head(t) = "-"
                      THEN 0 - DigitsVal(body, 0) ELSE DigitsVal(body, 0)]
        ELSE [ok |-> FALSE, val |-> 0]

\* s.split(sep): the pieces between the separators, empty pieces included
RECURSIVE SplitAcc(_, _, _)
SplitAcc(s, sep, cur) ==
    IF s = <<>> THEN <<cur>>
    ELSE IF Head(s) = sep THEN <<cur>> \o SplitAcc(Tail(s), sep, <<>>)
    ELSE SplitAcc(Tail(s), sep, Append(cur, Head(s)))

Split(s, sep) == SplitAcc(s, sep, <<>>)

\* sep.join(pieces)
RECURSIVE Join(_, _)
Join(pieces, sep) ==
    IF pieces = <<>> THEN <<>>
    ELSE IF Len(pieces) = 1 THEN pieces[1]
    ELSE pieces[1] \o <<sep>> \o Join(Tail(pieces), sep)

\* sorted(S) for a set of ints
RECURSIVE Sorted(_)
Sorted(S) ==
    IF S = {} THEN <<>>
    ELSE LET m == CHOOSE x \in S : \A y \in S : x <= y
         IN  <<m>> \o Sorted(S \ {m})

\* Optional[int]: None, or an int
NoInt == [some |-> FALSE, val |-> 0]

Some(v) == [some |-> TRUE, val |-> v]

\* (v or d): None and the empty string are falsy
OrElse(v, d) == IF v = None \/ v = <<>> THEN d ELSE v

(***************************************************************************)
(* Room entity.                                                            *)
(***************************************************************************)
\* Room.__init__
Room(room_no, building, capacity, booked_hours) ==
    [room_no |-> room_no, building |-> building,
     capacity |-> capacity, booked_hours |-> booked_hours]

is_free_at(r, hour) == hour \notin r.booked_hours

\* The buggy variant of book_hour that overwrites the set instead of adding.
book_hour_replacing(r, hour) ==
    IF hour \in r.booked_hours
    THEN [err |-> "TimeslotAlreadyBooked", room |-> r]
    ELSE [err |-> "ok", room |-> [r EXCEPT !.booked_hours = {hour}]]

\* The buggy variant of book_hour that lacks the already-booked check.
book_hour_unchecked(r, hour) ==
    [err |-> "ok", room |-> [r EXCEPT !.booked_hours = @ \cup {hour}]]

\* Room.book_hour: err is the exception raised ("ok" when none), room the
\* room afterwards.
book_hour(r, hour) ==
    IF hour \in r.booked_hours
    THEN [err |-> "TimeslotAlreadyBooked", room |-> r]
    ELSE [err |-> "ok", room |-> [r EXCEPT !.booked_hours = @ \cup {hour}]]

\* The buggy variant of booked_hours_str that joins with a comma, which the
\* loader does not split on.
booked_hours_str_comma(r) ==
    IF r.booked_hours = {} THEN <<>>
    ELSE LET hs == Sorted(r.booked_hours)
         IN  Join([i \in 1..Len(hs) |-> IntToStr(hs[i])], ",")

\* Room.booked_hours_str
booked_hours_str(r) ==
    IF r.booked_hours = {} THEN <<>>
    ELSE LET hs == Sorted(r.booked_hours)
         IN  Join([i \in 1..Len(hs) |-> IntToStr(hs[i])], ";")

(***************************************************************************)
(* The registry: self.rooms is a dict, modelled as the sequence of its     *)
(* values in insertion order.                                              *)
(***************************************************************************)
Keys(rs) == {rs[i].room_no : i \in 1..Len(rs)}

HasKey(rs, k) == \E i \in 1..Len(rs) : rs[i].room_no = k

KeyIndex(rs, k) == CHOOSE i \in 1..Len(rs) : rs[i].room_no = k

\* self.rooms[k]
Lookup(rs, k) == rs[KeyIndex(rs, k)]

\* self.rooms[k] = room: a new key is appended, an existing key keeps its
\* position and gets the new value.
DictSet(rs, k, room) ==
    IF HasKey(rs, k) THEN [rs EXCEPT ![KeyIndex(rs, k)] = room]
    ELSE Append(rs, room)

(***************************************************************************)
(* Persistence.  A file is [exists, fieldnames, rows]; a row maps each     *)
(* column to its text (None when the row is too short to have it).         *)
(***************************************************************************)
NoFile == [exists |-> FALSE, fieldnames |-> <<>>, rows |-> <<>>]

InSeq(x, s) == \E i \in 1..Len(s) : s[i] = x

\* The buggy variant of the header check that looks for the first column
\* only.
HeadersMismatch_firstonly(fieldnames) == ~InSeq(CSV_HEADERS[1], fieldnames)

\* any(h not in reader.fieldnames for h in CSV_HEADERS); an empty file has
\* no fieldnames at all.
HeadersMismatch(fieldnames) ==
    \E i \in 1..Len(CSV_HEADERS) : ~InSeq(CSV_HEADERS[i], fieldnames)

\* The buggy variant of the loop that lacks the range check on the hour.
RECURSIVE ParsePieces_norange(_, _)
ParsePieces_norange(pieces, acc) ==
    IF pieces = <<>> THEN acc
    ELSE LET piece == Strip(Head(pieces))
             h == StrToInt(piece)
         IN  IF piece = <<>> THEN ParsePieces_norange(Tail(pieces), acc)
             ELSE IF h.ok
                  THEN ParsePieces_norange(Tail(pieces), acc \cup {h.val})
                  ELSE ParsePieces_norange(Tail(pieces), acc)

\* The buggy variant of the loop that stops at the first bad piece instead
\* of skipping it.
RECURSIVE ParsePieces_stop(_, _)
ParsePieces_stop(pieces, acc) ==
    IF pieces = <<>> THEN acc
    ELSE LET piece == Strip(Head(pieces))
             h == StrToInt(piece)
         IN  IF piece = <<>> THEN ParsePieces_stop(Tail(pieces), acc)
             ELSE IF h.ok /\ MinHour <= h.val /\ h.val <= MaxHour
                  THEN ParsePieces_stop(Tail(pieces), acc \cup {h.val})
                  ELSE acc

\* The loop over the pieces of the booked_hours field.
RECURSIVE ParsePieces(_, _)
ParsePieces(pieces, acc) ==
    IF pieces = <<>> THEN acc
    ELSE LET piece == Strip(Head(pieces))
             h == StrToInt(piece)
         IN  IF piece = <<>> THEN ParsePieces(Tail(pieces), acc)
             ELSE IF h.ok /\ MinHour <= h.val /\ h.val <= MaxHour
                  THEN ParsePieces(Tail(pieces), acc \cup {h.val})
                  ELSE ParsePieces(Tail(pieces), acc)

ParseBookedHours(booked_str) ==
    IF booked_str = <<>> THEN {} ELSE ParsePieces(Split(booked_str, ";"), {})

\* The buggy variant of the row loop that does not strip the identifier.
LoadRow_unstripped(rs, row) ==
    LET room_no == OrElse(row.room_no, <<>>)
        building == Strip(OrElse(row.building, <<>>))
        capacity_str == Strip(OrElse(row.capacity, <<"0">>))
        booked_str == Strip(OrElse(row.booked_hours, <<>>))
        c == StrToInt(capacity_str)
        capacity == IF c.ok THEN c.val ELSE 0
    IN  IF room_no = <<>> THEN rs
        ELSE DictSet(rs, room_no,
                     Room(room_no, building, capacity, ParseBookedHours(booked_str)))

\* The buggy variant of the row loop that merges the hours of an earlier row
\* with the same identifier.
LoadRow_merge(rs, row) ==
    LET room_no == Strip(OrElse(row.room_no, <<>>))
        building == Strip(OrElse(row.building, <<>>))
        capacity_str == Strip(OrElse(row.capacity, <<"0">>))
        booked_str == Strip(OrElse(row.booked_hours, <<>>))
        c == StrToInt(capacity_str)
        capacity == IF c.ok THEN c.val ELSE 0
        earlier == IF HasKey(rs, room_no) THEN Lookup(rs, room_no).booked_hours ELSE {}
    IN  IF room_no = <<>> THEN rs
        ELSE DictSet(rs, room_no,
                     Room(room_no, building, capacity,
                          ParseBookedHours(booked_str) \cup earlier))

\* One iteration of "for row in reader": the registry after the row.
LoadRow(rs, row) ==
    LET room_no == Strip(OrElse(row.room_no, <<>>))
        building == Strip(OrElse(row.building, <<>>))
        capacity_str == Strip(OrElse(row.capacity, <<"0">>))
        booked_str == Strip(OrElse(row.booked_hours, <<>>))
        c == StrToInt(capacity_str)
        capacity == IF c.ok THEN c.val ELSE 0
    IN  IF room_no = <<>> THEN rs
        ELSE DictSet(rs, room_no,
                     Room(room_no, building, capacity, ParseBookedHours(booked_str)))

\* Rows i.. of the file; failAt is the row whose read raises (0: none does).
RECURSIVE LoadRows(_, _, _, _)
LoadRows(rows, i, failAt, rs) ==
    IF i > Len(rows) THEN [raised |-> FALSE, rooms |-> rs, diag |-> <<>>]
    ELSE IF i = failAt THEN [raised |-> TRUE, rooms |-> rs, diag |-> <<>>]
    ELSE LoadRows(rows, i + 1, failAt, LoadRow(rs, rows[i]))

\* The read faults a load can meet: none (0), a raise while opening the
\* file or reading its header (-1), a raise while reading row i.
ReadFaults(file) ==
    IF ~file.exists THEN {0}
    ELSE IF HeadersMismatch(file.fieldnames) THEN {-1, 0}
    ELSE (-1)..Len(file.rows)

\* The body of the try block of load_from_csv: whether it raised, the
\* registry built so far, what it printed.
LoadTry(file, failAt) ==
    IF failAt = -1 THEN [raised |-> TRUE, rooms |-> <<>>, diag |-> <<>>]
    ELSE IF HeadersMismatch(file.fieldnames)
         THEN [raised |-> FALSE, rooms |-> <<>>,
               diag |-> <<"Warning: headers don't match">>]
    ELSE LoadRows(file.rows, 1, failAt, <<>>)

\* load_from_csv without its except clause: the exception propagates.
load_from_csv_noexcept(file, failAt) ==
    IF ~file.exists THEN [err |-> "ok", rooms |-> <<>>, diag |-> <<>>]
    ELSE LET t == LoadTry(file, failAt)
         IN  [err |-> IF t.raised THEN "OSError" ELSE "ok",
              rooms |-> t.rooms, diag |-> t.diag]

\* RoomManager.load_from_csv on an empty self.rooms: the exception that
\* leaves it ("ok": none), the registry it builds and what it prints.
load_from_csv(file, failAt) ==
    IF ~file.exists THEN [err |-> "ok", rooms |-> <<>>, diag |-> <<>>]
    ELSE LET t == LoadTry(file, failAt)
         IN  [err |-> "ok", rooms |-> t.rooms,
              diag |-> IF t.raised THEN t.diag \o <<"Error loading CSV file">>
                       ELSE t.diag]

\* writer.writerow({...}) for one room
RowOf(r) ==
    [room_no |-> r.room_no, building |-> r.building,
     capacity |-> IntToStr(r.capacity), booked_hours |-> booked_hours_str(r)]

\* The write faults a save can meet: none, open() raising (the old file is
\* left as it was), or a write raising after open() truncated the file and
\* the header and n records reached it (n = -1: not even the header).
WriteFaults(rs) ==
    {[kind |-> "none", n |-> 0], [kind |-> "open", n |-> 0]}
        \cup {[kind |-> "write", n |-> n] : n \in (-1)..(Len(rs) - 1)}

\* The buggy variant of the try block that opens the file for appending: the
\* old records stay and the new ones follow them.
SaveTry_append(rs, old, fault) ==
    CASE fault.kind = "none" ->
            [raised |-> FALSE,
             file |-> [exists |-> TRUE, fieldnames |-> CSV_HEADERS,
                       rows |-> old.rows \o [i \in 1..Len(rs) |-> RowOf(rs[i])]]]
      [] fault.kind = "open" -> [raised |-> TRUE, file |-> old]
      [] OTHER ->
            [raised |-> TRUE,
             file |-> [exists |-> TRUE, fieldnames |-> CSV_HEADERS,
                       rows |-> old.rows \o [i \in 1..fault.n |-> RowOf(rs[i])]]]

\* The body of the try block of save_to_csv: whether it raised and the file
\* afterwards.
SaveTry(rs, old, fault) ==
    CASE fault.kind = "none" ->
            [raised |-> FALSE,
             file |-> [exists |-> TRUE, fieldnames |-> CSV_HEADERS,
                       rows |-> [i \in 1..Len(rs) |-> RowOf(rs[i])]]]
      [] fault.kind = "open" -> [raised |-> TRUE, file |-> old]
      [] OTHER ->
            [raised |-> TRUE,
             file |-> [exists |-> TRUE,
                       fieldnames |-> IF fault.n < 0 THEN <<>> ELSE CSV_HEADERS,
                       rows |-> [i \in 1..fault.n |-> RowOf(rs[i])]]]

\* The buggy variant of save_to_csv that does not write when the registry is
\* empty.
save_to_csv_skipempty(rs, old, fault) ==
    LET t == SaveTry(rs, old, fault)
    IN  IF rs = <<>> THEN [err |-> "ok", file |-> old, diag |-> <<>>]
        ELSE [err |-> "ok", file |-> t.file,
              diag |-> IF t.raised THEN <<"Error saving to CSV file">> ELSE <<>>]

\* RoomManager.save_to_csv: the exception that leaves it ("ok": none), the
\* file afterwards and what it prints.
save_to_csv(rs, old, fault) ==
    LET t == SaveTry(rs, old, fault)
    IN  [err |-> "ok", file |-> t.file,
         diag |-> IF t.raised THEN <<"Error saving to CSV file">> ELSE <<>>]

(***************************************************************************)
(* Registry operations.  Each returns err (the exception raised, "ok" when *)
(* none) and the registry afterwards.                                      *)
(***************************************************************************)
\* The buggy variant of add_room that lacks the existence check and
\* overwrites the room.
add_room_overwrite(rs, room_no_arg, building, capacity) ==
    LET room_no == Strip(room_no_arg)
    IN  [err |-> "ok",
         rooms |-> DictSet(rs, room_no, Room(room_no, Strip(building), capacity, {}))]

\* The buggy variant of add_room that assigns a new dict holding the room
\* instead of inserting into the old one.
add_room_reset(rs, room_no_arg, building, capacity) ==
    LET room_no == Strip(room_no_arg)
    IN  IF HasKey(rs, room_no)
        THEN [err |-> "RoomAlreadyExists", rooms |-> rs]
        ELSE [err |-> "ok",
              rooms |-> <<Room(room_no, Strip(building), capacity, {})>>]

\* The buggy variant of add_room that inserts the room before it checks.
add_room_latecheck(rs, room_no_arg, building, capacity) ==
    LET room_no == Strip(room_no_arg)
        inserted == DictSet(rs, room_no, Room(room_no, Strip(building), capacity, {}))
    IN  IF HasKey(rs, room_no)
        THEN [err |-> "RoomAlreadyExists", rooms |-> inserted]
        ELSE [err |-> "ok", rooms |-> inserted]

\* RoomManager.add_room
add_room(rs, room_no_arg, building, capacity) ==
    LET room_no == Strip(room_no_arg)
    IN  IF HasKey(rs, room_no)
        THEN [err |-> "RoomAlreadyExists", rooms |-> rs]
        ELSE [err |-> "ok",
              rooms |-> DictSet(rs, room_no,
                                Room(room_no, Strip(building), capacity, {}))]

\* RoomManager.get_room: room_no is the trimmed key it looked up.
get_room(rs, room_no_arg) ==
    LET room_no == Strip(room_no_arg)
    IN  IF ~HasKey(rs, room_no)
        THEN [err |-> "RoomNotFound", room_no |-> room_no]
        ELSE [err |-> "ok", room_no |-> room_no]

\* The buggy variant of book_room that swallows TimeslotAlreadyBooked.
book_room_swallow(rs, room_no_arg, hour) ==
    LET g == get_room(rs, room_no_arg)
    IN  IF g.err # "ok" THEN [err |-> g.err, rooms |-> rs]
        ELSE LET b == book_hour(Lookup(rs, g.room_no), hour)
             IN  [err |-> "ok",
                  rooms |-> [rs EXCEPT ![KeyIndex(rs, g.room_no)] = b.room]]

\* RoomManager.book_room: get_room, then book_hour on the room it returns.
book_room(rs, room_no_arg, hour) ==
    LET g == get_room(rs, room_no_arg)
    IN  IF g.err # "ok" THEN [err |-> g.err, rooms |-> rs]
        ELSE LET b == book_hour(Lookup(rs, g.room_no), hour)
             IN  [err |-> b.err,
                  rooms |-> [rs EXCEPT ![KeyIndex(rs, g.room_no)] = b.room]]

\* The buggy variant of find_rooms whose capacity bound is exclusive.
RECURSIVE find_rooms_exclusive(_, _, _, _)
find_rooms_exclusive(rs, building, min_capacity, free_at_hour) ==
    IF rs = <<>> THEN <<>>
    ELSE LET r == Head(rs)
             rest == find_rooms_exclusive(Tail(rs), building, min_capacity,
                                          free_at_hour)
         IN  IF building # None /\ Lower(r.building) # Lower(building) THEN rest
             ELSE IF min_capacity.some /\ r.capacity <= min_capacity.val THEN rest
             ELSE IF free_at_hour.some /\ ~is_free_at(r, free_at_hour.val) THEN rest
             ELSE <<r>> \o rest

\* The rooms find_rooms keeps, in the registry's iteration order.
RECURSIVE FilterRooms(_, _, _, _)
FilterRooms(rs, building, min_capacity, free_at_hour) ==
    IF rs = <<>> THEN <<>>
    ELSE LET r == Head(rs)
             rest == FilterRooms(Tail(rs), building, min_capacity, free_at_hour)
         IN  IF building # None /\ Lower(r.building) # Lower(building) THEN rest
             ELSE IF min_capacity.some /\ r.capacity < min_capacity.val THEN rest
             ELSE IF free_at_hour.some /\ ~is_free_at(r, free_at_hour.val) THEN rest
             ELSE <<r>> \o rest

find_rooms(rs, building, min_capacity, free_at_hour) ==
    FilterRooms(rs, building, min_capacity, free_at_hour)

\* The code point order of the characters the model uses.
CharOrder == <<" ", "0", "1", "2", "3", "4", "5", "6", "7", "8", "9",
               "A", "B", "M", "N", "a", "b", "m", "n", "x">>

CharRank(c) == CHOOSE i \in 1..Len(CharOrder) : CharOrder[i] = c

\* a < b for str: lexicographic, a proper prefix first
RECURSIVE TextLess(_, _)
TextLess(a, b) ==
    IF b = <<>> THEN FALSE
    ELSE IF a = <<>> THEN TRUE
    ELSE IF Head(a) = Head(b) THEN TextLess(Tail(a), Tail(b))
    ELSE CharRank(Head(a)) < CharRank(Head(b))

\* sorted(rooms, key=room_no): insertion of r into a sorted sequence, after
\* the rooms whose key is not greater (sorted is stable).
RECURSIVE InsertSorted(_, _)
InsertSorted(sorted, r) ==
    IF sorted = <<>> THEN <<r>>
    ELSE IF TextLess(r.room_no, Head(sorted).room_no) THEN <<r>> \o sorted
    ELSE <<Head(sorted)>> \o InsertSorted(Tail(sorted), r)

RECURSIVE SortRooms(_, _)
SortRooms(rs, acc) ==
    IF rs = <<>> THEN acc ELSE SortRooms(Tail(rs), InsertSorted(acc, Head(rs)))

\* The buggy variant of list_rooms that returns the rooms unsorted.
list_rooms_unsorted(rs) == rs

list_rooms(rs) == SortRooms(rs, <<>>)

(***************************************************************************)
(* Front end: the prompts.  A prompt loops until its answer is accepted,   *)
(* so a rejected answer changes nothing and an action takes the answer     *)
(* that ends the loop.                                                     *)
(***************************************************************************)
\* ask_non_empty: the value returned for an accepted answer
ask_non_empty(answer) == Strip(answer)

AcceptsNonEmpty(answer) == Strip(answer) # <<>>

\* ask_int: the value returned for an accepted answer
ask_int(answer) == StrToInt(Strip(answer)).val

AcceptsInt(answer, min_value, max_value) ==
    LET v == StrToInt(Strip(answer))
    IN  /\ v.ok
        /\ ~(min_value.some /\ v.val < min_value.val)
        /\ ~(max_value.some /\ v.val > max_value.val)

(***************************************************************************)
(* Inputs: the answers a user types and the files a session can find.      *)
(***************************************************************************)
IdAnswers == {<<"a">>, <<" ", "A", " ">>, <<"b">>, <<" ">>, <<>>}

\* One accepted answer and one rejected; the files supply the other building.
BuildingAnswers == {<<" ", "n">>, <<" ">>}

CapacityAnswers == {<<"0">>, <<"-", "1">>, <<"x">>}

HourAnswers == {<<"0">>, <<" ", "2", "3">>, <<"2", "4">>, <<"-", "1">>, <<"x">>}

FindBuildingAnswers == {<<>>, <<"m">>}

FindCapacityAnswers == {<<>>, <<"3", "0">>, <<"-", "1">>}

FindHourAnswers == {<<>>, <<"2", "3">>, <<"2", "4">>}

Row(room_no, building, capacity, booked_hours) ==
    [room_no |-> room_no, building |-> building,
     capacity |-> capacity, booked_hours |-> booked_hours]

File(fieldnames, rows) ==
    [exists |-> TRUE, fieldnames |-> fieldnames, rows |-> rows]

\* A zero-byte file
EmptyFile == File(<<>>, <<>>)

\* A header that lacks booked_hours
ShortHeaderFile ==
    File(<<"room_no", "building", "capacity">>,
         <<Row(<<"a">>, <<"M">>, <<"3", "0">>, None)>>)

\* All four columns in another order, and a column more
ReorderedFile ==
    File(<<"booked_hours", "extra", "capacity", "building", "room_no">>,
         <<Row(<<"a">>, <<"M">>, <<"3", "0">>, <<"2", "3">>)>>)

\* A file as save_to_csv writes it
CleanFile ==
    File(CSV_HEADERS,
         <<Row(<<"a">>, <<"M">>, <<"3", "0">>, <<"0", ";", "2", "3">>),
           Row(<<"A">>, <<"n">>, <<"0">>, <<>>)>>)

\* Untrimmed fields, a malformed capacity, bad hour tokens, a row without
\* identifier, a negative capacity
DirtyFile ==
    File(CSV_HEADERS,
         <<Row(<<" ", "a", " ">>, <<" ", "M">>, <<"x">>,
               <<"0", ";", "9", "9", ";", "x", ";", " ", "2", "3">>),
           Row(<<" ">>, <<"M">>, <<"3", "0">>, <<"0">>),
           Row(<<"A">>, <<"n">>, <<"-", "5">>, <<"2", "4", ";", "-", "1", ";">>)>>)

\* Two rows with the same identifier
DuplicateFile ==
    File(CSV_HEADERS,
         <<Row(<<"a">>, <<"M">>, <<"3", "0">>, <<"0">>),
           Row(<<"A">>, <<"n">>, <<"0">>, <<>>),
           Row(<<"a", " ">>, <<"n">>, <<"0">>, <<"2", "3">>)>>)

\* A row shorter than the header
ShortRowFile ==
    File(CSV_HEADERS, <<Row(<<"b">>, None, None, None)>>)

InitialFiles ==
    {NoFile, EmptyFile, ShortHeaderFile, ReorderedFile, CleanFile, DirtyFile,
     DuplicateFile, ShortRowFile}

(***************************************************************************)
(* The session.                                                            *)
(***************************************************************************)
VARIABLES
    storage,    \* the file bookings_final_state.csv
    rooms,      \* manager.rooms of the session's RoomManager
    pc,         \* "start": before RoomManager(); "menu"; "exited"
    last,       \* the latest call: its arguments, its outcome, what it printed
    nOps        \* menu choices 1-5 dispatched so far

vars == <<storage, rooms, pc, last, nOps>>

NoCriteria == [building |-> None, min_capacity |-> NoInt, free_at_hour |-> NoInt]

\* fault: the I/O faults the call met, a subset of {"read", "write"}
Call(op, room_no, hour, err, diag, ret, criteria, fault) ==
    [op |-> op, room_no |-> room_no, hour |-> hour, err |-> err,
     diag |-> diag, ret |-> ret, criteria |-> criteria, fault |-> fault]

ReadFault(failAt) == IF failAt # 0 THEN {"read"} ELSE {}

WriteFault(fault) == IF fault.kind # "none" THEN {"write"} ELSE {}

Init ==
    /\ storage \in InitialFiles
    /\ rooms = <<>>
    /\ pc = "start"
    /\ last = Call("none", <<>>, -1, "ok", <<>>, <<>>, NoCriteria, {})
    /\ nOps = 0

\* manager = RoomManager(): __init__ loads the file
Construct ==
    /\ pc = "start"
    /\ \E failAt \in ReadFaults(storage) :
        LET l == load_from_csv(storage, failAt)
        IN  /\ rooms' = l.rooms
            /\ last' = Call("load", <<>>, -1, l.err, l.diag, <<>>, NoCriteria,
                            ReadFault(failAt))
    /\ pc' = "menu"
    /\ UNCHANGED <<storage, nOps>>

\* The buggy variant of choice "1" that saves after the mutation.
Choice1_autosave ==
    /\ pc = "menu"
    /\ nOps < MaxOps
    /\ \E idAns \in IdAnswers, bAns \in BuildingAnswers, cAns \in CapacityAnswers :
        /\ AcceptsNonEmpty(idAns)
        /\ AcceptsNonEmpty(bAns)
        /\ AcceptsInt(cAns, Some(MinCapacity), NoInt)
        /\ LET room_no == ask_non_empty(idAns)
               a == add_room(rooms, room_no, ask_non_empty(bAns), ask_int(cAns))
           IN  /\ rooms' = a.rooms
               /\ storage' = save_to_csv(a.rooms, storage,
                                         [kind |-> "none", n |-> 0]).file
               /\ last' = Call("add_room", Strip(room_no), -1, a.err, <<>>, <<>>,
                               NoCriteria, {})
    /\ nOps' = nOps + 1
    /\ UNCHANGED pc

\* choice == "1": create a new room
Choice1 ==
    /\ pc = "menu"
    /\ nOps < MaxOps
    /\ \E idAns \in IdAnswers, bAns \in BuildingAnswers, cAns \in CapacityAnswers :
        /\ AcceptsNonEmpty(idAns)
        /\ AcceptsNonEmpty(bAns)
        /\ AcceptsInt(cAns, Some(MinCapacity), NoInt)
        /\ LET room_no == ask_non_empty(idAns)
               a == add_room(rooms, room_no, ask_non_empty(bAns), ask_int(cAns))
           IN  /\ rooms' = a.rooms
               /\ last' = Call("add_room", Strip(room_no), -1, a.err, <<>>, <<>>,
                               NoCriteria, {})
    /\ nOps' = nOps + 1
    /\ UNCHANGED <<storage, pc>>

\* choice == "2": book a room for a single hour
Choice2 ==
    /\ pc = "menu"
    /\ nOps < MaxOps
    /\ \E idAns \in IdAnswers, hAns \in HourAnswers :
        /\ AcceptsNonEmpty(idAns)
        /\ AcceptsInt(hAns, Some(MinHour), Some(MaxHour))
        /\ LET room_no == ask_non_empty(idAns)
               hour == ask_int(hAns)
               b == book_room(rooms, room_no, hour)
           IN  /\ rooms' = b.rooms
               /\ last' = Call("book_room", Strip(room_no), hour, b.err, <<>>, <<>>,
                               NoCriteria, {})
    /\ nOps' = nOps + 1
    /\ UNCHANGED <<storage, pc>>

\* The criteria choice "3" builds from its three answers.
FindCriteria(bAns, cAns, hAns) ==
    LET bld == Strip(bAns)
        c == StrToInt(Strip(cAns))
        h == StrToInt(Strip(hAns))
    IN  [building |-> IF bld # <<>> THEN bld ELSE None,
         min_capacity |->
            IF Strip(cAns) # <<>> /\ c.ok /\ ~(c.val < 0) THEN Some(c.val) ELSE NoInt,
         free_at_hour |->
            IF Strip(hAns) # <<>> /\ h.ok /\ MinHour <= h.val /\ h.val <= MaxHour
            THEN Some(h.val) ELSE NoInt]

\* choice == "3": find/filter rooms
Choice3 ==
    /\ pc = "menu"
    /\ nOps < MaxOps
    /\ \E bAns \in FindBuildingAnswers, cAns \in FindCapacityAnswers,
          hAns \in FindHourAnswers :
        LET crit == FindCriteria(bAns, cAns, hAns)
            matches == find_rooms(rooms, crit.building, crit.min_capacity,
                                  crit.free_at_hour)
        IN  last' = Call("find_rooms", <<>>, -1, "ok", <<>>, matches, crit, {})
    /\ nOps' = nOps + 1
    /\ UNCHANGED <<storage, rooms, pc>>

\* choice == "4": view bookings for a room
Choice4 ==
    /\ pc = "menu"
    /\ nOps < MaxOps
    /\ \E idAns \in IdAnswers :
        /\ AcceptsNonEmpty(idAns)
        /\ LET g == get_room(rooms, ask_non_empty(idAns))
           IN  last' = Call("get_room", g.room_no, -1, g.err, <<>>,
                            IF g.err = "ok" THEN <<Lookup(rooms, g.room_no)>> ELSE <<>>,
                            NoCriteria, {})
    /\ nOps' = nOps + 1
    /\ UNCHANGED <<storage, rooms, pc>>

\* choice == "5": list all rooms
Choice5 ==
    /\ pc = "menu"
    /\ nOps < MaxOps
    /\ last' = Call("list_rooms", <<>>, -1, "ok", <<>>, list_rooms(rooms), NoCriteria,
                    {})
    /\ nOps' = nOps + 1
    /\ UNCHANGED <<storage, rooms, pc>>

\* choice == "6": save and quit
Choice6 ==
    /\ pc = "menu"
    /\ \E fault \in WriteFaults(rooms) :
        LET sv == save_to_csv(rooms, storage, fault)
        IN  /\ storage' = sv.file
            /\ last' = Call("save", <<>>, -1, sv.err, sv.diag, <<>>, NoCriteria,
                            WriteFault(fault))
    /\ pc' = "exited"
    /\ UNCHANGED <<rooms, nOps>>

\* The registry the KeyboardInterrupt handler saves: RoomManager() is a new
\* manager, loaded from the file.
InterruptManager(sessionRooms, file, failAt) == load_from_csv(file, failAt)

\* KeyboardInterrupt at a prompt (or during startup): the handler of
\* __main__ runs RoomManager().save_to_csv().  rooms keeps what the session
\* held when it was interrupted.
Interrupt ==
    /\ pc \in {"start", "menu"}
    /\ \E failAt \in ReadFaults(storage) :
        LET m == InterruptManager(rooms, storage, failAt)
        IN  \E fault \in WriteFaults(m.rooms) :
              LET sv == save_to_csv(m.rooms, storage, fault)
              IN  /\ storage' = sv.file
                  /\ last' = Call("interrupt", <<>>, -1, sv.err, m.diag \o sv.diag,
                                  m.rooms, NoCriteria,
                                  ReadFault(failAt) \cup WriteFault(fault))
    /\ pc' = "exited"
    /\ UNCHANGED <<rooms, nOps>>

Next ==
    \/ Construct
    \/ Choice1
    \/ Choice2
    \/ Choice3
    \/ Choice4
    \/ Choice5
    \/ Choice6
    \/ Interrupt

Spec == Init /\ [][Next]_vars

(***************************************************************************)
(* Properties.                                                             *)
(***************************************************************************)
\* Two registries hold the same identifiers and, for each, the same room.
SameRegistry(a, b) ==
    /\ Keys(a) = Keys(b)
    /\ \A k \in Keys(a) : Lookup(a, k) = Lookup(b, k)

\* C1: after a session ended with a save that met no fault, loading the file
\* into a fresh registry yields the identifiers the session held and, for
\* each, the same location, capacity and booked-hour set.
C1_RoundTrip ==
    (pc = "exited" /\ last.op = "save" /\ last.fault = {})
        => SameRegistry(load_from_csv(storage, 0).rooms, rooms)

\* C1 witness: a saved session holding a room that add_room created and
\* book_room booked.
C1_Witness ==
    /\ pc = "exited" /\ last.op = "save" /\ last.fault = {}
    /\ HasKey(rooms, <<"b">>)
    /\ Lookup(rooms, <<"b">>).booked_hours # {}
    /\ Lookup(rooms, <<"b">>).building = <<"n">>

\* C2: a booking that succeeds leaves the hour not free on that room, and a
\* second book_hour of the same hour on it raises TimeslotAlreadyBooked.
C2_BookedThenTaken ==
    [][(last'.op = "book_room" /\ last'.err = "ok")
        => LET r == Lookup(rooms', last'.room_no)
           IN  /\ ~is_free_at(r, last'.hour)
               /\ book_hour(r, last'.hour).err = "TimeslotAlreadyBooked"
               /\ book_hour(r, last'.hour).room = r]_vars

\* C2 witness: in a session that started without a file, the second booking
\* of hour 23 on room b was refused.
C2_Witness ==
    /\ ~storage.exists /\ pc = "menu"
    /\ last.op = "book_room" /\ last.err = "TimeslotAlreadyBooked"
    /\ last.room_no = <<"b">> /\ last.hour = MaxHour

\* C3: once the session has ended and its save met no fault, every room the
\* session held is in the file, with its booked hours.
C3_ExitSavesSession ==
    (pc = "exited" /\ last.fault = {})
        => \A i \in 1..Len(rooms) :
              storage.exists /\ InSeq(RowOf(rooms[i]), storage.rows)

\* C4: an add_room call whose trimmed identifier is in the registry raises
\* RoomAlreadyExists and changes nothing; after any add_room call the
\* identifier is in the registry, and no identifier ever leaves it.  So the
\* second of two calls with one identifier always fails.
C4_SecondAddFails ==
    [][/\ Keys(rooms) \subseteq Keys(rooms')
       /\ last'.op = "add_room" =>
            /\ HasKey(rooms', last'.room_no)
            /\ HasKey(rooms, last'.room_no) =>
                 (last'.err = "RoomAlreadyExists" /\ rooms' = rooms)]_vars

\* C4 witness: in a session that started without a file, add_room was
\* refused for an identifier the session had added before.
C4_Witness ==
    /\ ~storage.exists /\ pc = "menu"
    /\ last.op = "add_room" /\ last.err = "RoomAlreadyExists"
    /\ last.room_no = <<"A">>

\* C5: every booked hour of every room lies in [0, 23].
C5_HoursInRange ==
    \A i \in 1..Len(rooms) :
        \A h \in rooms[i].booked_hours : MinHour <= h /\ h <= MaxHour

\* C5 witness: room A was loaded from a row whose hour tokens were all out
\* of range, and then booked at both ends of the day.
C5_Witness ==
    /\ storage = DirtyFile /\ pc = "menu"
    /\ HasKey(rooms, <<"A">>)
    /\ Lookup(rooms, <<"A">>).booked_hours = {MinHour, MaxHour}

\* C6: every room's capacity is non-negative.
C6_CapacityNonNegative ==
    \A i \in 1..Len(rooms) : rooms[i].capacity >= 0

\* C7: every identifier is non-empty and trimmed, and no two rooms share one.
C7_IdentifiersWellFormed ==
    /\ \A i \in 1..Len(rooms) :
          rooms[i].room_no # <<>> /\ Strip(rooms[i].room_no) = rooms[i].room_no
    /\ \A i, j \in 1..Len(rooms) : rooms[i].room_no = rooms[j].room_no => i = j

\* C7 witness: a registry loaded from untrimmed and empty identifiers, with
\* a room added to it.
C7_Witness ==
    /\ storage = DirtyFile /\ pc = "menu"
    /\ Keys(rooms) = {<<"a">>, <<"A">>, <<"b">>}

\* C8: across every step of a session each room stays, its booked hours
\* never shrink, and they change only by the hour of a successful book_room
\* on that room.
C8_HoursOnlyGrow ==
    [][\A i \in 1..Len(rooms) :
          LET k == rooms[i].room_no
          IN  /\ HasKey(rooms', k)
              /\ rooms[i].booked_hours \subseteq Lookup(rooms', k).booked_hours
              /\ Lookup(rooms', k).booked_hours # rooms[i].booked_hours =>
                    /\ last'.op = "book_room" /\ last'.err = "ok"
                    /\ last'.room_no = k
                    /\ Lookup(rooms', k).booked_hours
                          = rooms[i].booked_hours \cup {last'.hour}]_vars

\* C8 witness: a room that already had a booked hour got a second one.
C8_Witness ==
    /\ storage = CleanFile
    /\ last.op = "book_room" /\ last.err = "ok" /\ last.room_no = <<"A">>
    /\ Lookup(rooms, <<"A">>).booked_hours = {MinHour, MaxHour}

\* C9: book_room raises RoomNotFound exactly when the trimmed identifier is
\* absent, otherwise TimeslotAlreadyBooked exactly when the hour is taken,
\* otherwise it succeeds and adds the hour to that room alone; a failure
\* changes nothing.
C9_BookRoomOutcome ==
    [][last'.op = "book_room" =>
        LET k == last'.room_no
            h == last'.hour
        IN  /\ last'.err \in {"ok", "RoomNotFound", "TimeslotAlreadyBooked"}
            /\ (last'.err = "RoomNotFound") <=> ~HasKey(rooms, k)
            /\ HasKey(rooms, k) =>
                 ((last'.err = "TimeslotAlreadyBooked")
                     <=> h \in Lookup(rooms, k).booked_hours)
            /\ last'.err # "ok" => rooms' = rooms
            /\ last'.err = "ok" =>
                 rooms' = [rooms EXCEPT ![KeyIndex(rooms, k)].booked_hours
                                            = @ \cup {h}]]_vars

\* C9 witness: a booking succeeded on the third room of a registry.
C9_Witness ==
    /\ last.op = "book_room" /\ last.err = "ok" /\ last.room_no = <<"b">>
    /\ Len(rooms) = 3

\* A row the loader does not take as it is: no identifier, a capacity that
\* is no integer, or an hour token that is no hour.
RowCorrupt(row) ==
    \/ Strip(OrElse(row.room_no, <<>>)) = <<>>
    \/ ~StrToInt(Strip(OrElse(row.capacity, <<"0">>))).ok
    \/ LET pieces == Split(Strip(OrElse(row.booked_hours, <<>>)), ";")
       IN  \E i \in 1..Len(pieces) :
              LET h == StrToInt(Strip(pieces[i]))
              IN  Strip(pieces[i]) # <<>> /\ ~(h.ok /\ MinHour <= h.val /\ h.val <= MaxHour)

\* The storage-layer failures a load meets: missing file, schema mismatch,
\* row-level corruption, read fault.
LoadFailure(file, fault) ==
    \/ ~file.exists
    \/ HeadersMismatch(file.fieldnames)
    \/ \E i \in 1..Len(file.rows) : RowCorrupt(file.rows[i])
    \/ fault # {}

\* C10 as stated: load and save never raise, and every storage-layer failure
\* they meet is printed.
C10_AlwaysDiagnosed ==
    /\ last.op \in {"load", "save"} => last.err = "ok"
    /\ (last.op = "load" /\ LoadFailure(storage, last.fault)) => last.diag # <<>>
    /\ (last.op = "save" /\ last.fault # {}) => last.diag # <<>>

\* C10 amended: load and save never raise; a schema mismatch, a read fault
\* and a write fault are printed; a missing file and row-level corruption
\* are handled without any diagnostic.
C10_DiagnosedOrSilent ==
    /\ last.op \in {"load", "save"} => last.err = "ok"
    /\ last.op = "load" =>
         (last.diag # <<>>
            <=> (last.fault # {}
                   \/ (storage.exists /\ HeadersMismatch(storage.fieldnames))))
    /\ last.op = "save" => (last.diag # <<>> <=> last.fault # {})

\* C10 witness: a load met a read fault in the middle of a file with corrupt
\* rows, and reported it.
C10_Witness ==
    /\ last.op = "load" /\ storage = DirtyFile /\ last.fault = {"read"}
    /\ last.err = "ok" /\ last.diag = <<"Error loading CSV file">>
    /\ Len(rooms) = 1

\* The registry a load builds from rows that it reads without fault: the
\* trimmed, non-empty identifiers of the rows.
RowIds(rows) ==
    {Strip(OrElse(rows[i].room_no, <<>>)) : i \in 1..Len(rows)} \ {<<>>}

\* C11: a load that reads a header lacking one of room_no, building,
\* capacity, booked_hours leaves the registry empty, prints the warning and
\* does not raise, whichever column is the missing one; a header with all
\* four, in any order, is accepted and its rows are loaded.
C11_HeaderCheck ==
    /\ \A c \in 1..Len(CSV_HEADERS) :
          LET others == SelectSeq(CSV_HEADERS, LAMBDA h : h # CSV_HEADERS[c])
              l == load_from_csv(File(others, CleanFile.rows), 0)
          IN  /\ l.err = "ok" /\ l.rooms = <<>>
              /\ l.diag = <<"Warning: headers don't match">>
    /\ (last.op = "load" /\ storage.exists /\ last.fault = {}) =>
        LET names == {storage.fieldnames[i] : i \in 1..Len(storage.fieldnames)}
            complete ==
                {"room_no", "building", "capacity", "booked_hours"} \subseteq names
        IN  /\ last.err = "ok"
            /\ ~complete =>
                 (rooms = <<>> /\ last.diag = <<"Warning: headers don't match">>)
            /\ complete =>
                 (last.diag = <<>> /\ Keys(rooms) = RowIds(storage.rows))

\* C11 witness: the file whose header lacks booked_hours was loaded.
C11_Witness ==
    /\ last.op = "load" /\ storage = ShortHeaderFile /\ last.fault = {}
    /\ last.diag = <<"Warning: headers don't match">>

\* The hours a booked_hours field stands for: the integers in [0, 23] that
\* one of its semicolon-separated tokens parses to.
TokenHours(field) ==
    LET pieces == Split(field, ";")
    IN  {h \in MinHour..MaxHour :
            \E i \in 1..Len(pieces) :
                StrToInt(pieces[i]).ok /\ StrToInt(pieces[i]).val = h}

\* The last row of rows whose trimmed identifier is k.
LastRowOf(rows, k) ==
    rows[CHOOSE i \in 1..Len(rows) :
            /\ Strip(OrElse(rows[i].room_no, <<>>)) = k
            /\ \A j \in (i + 1)..Len(rows) :
                  Strip(OrElse(rows[j].room_no, <<>>)) # k]

\* C12: after a load without fault, each room's booked hours are exactly the
\* tokens of its row's booked_hours field that parse as integers in [0, 23];
\* bad tokens are dropped one by one and the row is still loaded.  The field
\* "5;99;abc;7" gives {5, 7}.
C12_HourTokens ==
    /\ ParseBookedHours(<<"5", ";", "9", "9", ";", "a", "b", "c", ";", "7">>) = {5, 7}
    /\ (last.op = "load" /\ storage.exists /\ last.fault = {}
            /\ ~HeadersMismatch(storage.fieldnames)) =>
          \A k \in RowIds(storage.rows) :
              /\ HasKey(rooms, k)
              /\ Lookup(rooms, k).booked_hours
                    = TokenHours(OrElse(LastRowOf(storage.rows, k).booked_hours, <<>>))

\* C12 witness: the row with the field "0;99;x; 23" was loaded as {0, 23}.
C12_Witness ==
    /\ last.op = "load" /\ storage = DirtyFile /\ last.fault = {}
    /\ Lookup(rooms, <<"a">>).booked_hours = {0, 23}

\* The elements of a sequence.
Range(seq) == {seq[i] : i \in 1..Len(seq)}

\* Two texts are equal when the case of their letters is ignored.
SameIgnoringCase(a, b) ==
    /\ Len(a) = Len(b)
    /\ \A i \in 1..Len(a) :
          \/ a[i] = b[i]
          \/ {a[i], b[i]} \in {{"A", "a"}, {"B", "b"}, {"M", "m"}, {"N", "n"}}

\* A room satisfies every criterion that is set.
Satisfies(r, crit) ==
    /\ crit.building # None => SameIgnoringCase(r.building, crit.building)
    /\ crit.min_capacity.some => r.capacity >= crit.min_capacity.val
    /\ crit.free_at_hour.some => crit.free_at_hour.val \notin r.booked_hours

\* C13: find_rooms returns, each once, exactly the rooms that satisfy every
\* criterion that is set; with none set that is every room, and with all
\* three set it is the intersection of the three single-criterion results.
C13_FindRooms ==
    /\ last.op = "find_rooms" =>
          /\ Range(last.ret) = {r \in Range(rooms) : Satisfies(r, last.criteria)}
          /\ Len(last.ret) = Cardinality(Range(last.ret))
          /\ last.criteria = NoCriteria => last.ret = rooms
    /\ \A b \in {<<"m">>, <<"N">>}, c \in {0, 30}, h \in {MinHour, MaxHour} :
          Range(find_rooms(rooms, b, Some(c), Some(h)))
             = Range(find_rooms(rooms, b, NoInt, NoInt))
                  \cap Range(find_rooms(rooms, None, Some(c), NoInt))
                  \cap Range(find_rooms(rooms, None, NoInt, Some(h)))

\* C13 witness: a search with all three criteria set kept one room of two.
C13_Witness ==
    /\ last.op = "find_rooms"
    /\ last.criteria.building # None
    /\ last.criteria.min_capacity.some /\ last.criteria.free_at_hour.some
    /\ Len(last.ret) = 1 /\ Len(rooms) = 2

\* C14: the file changes only in a step that calls save_to_csv (choice "6"
\* or the interrupt handler); creating a room, booking, searching, viewing and
\* listing leave it as it is, so a session that has not saved has the file it
\* started with.
C14_NoAutoSave ==
    [][/\ storage' # storage => last'.op \in {"save", "interrupt"}
       /\ last'.op \in {"add_room", "book_room", "find_rooms", "get_room",
                        "list_rooms", "load"} => storage' = storage
       /\ pc' # "exited" => storage' \in InitialFiles]_vars

\* C14 witness: a session that started without a file has created a room
\* and booked it, and there is still no file.
C14_Witness ==
    /\ ~storage.exists /\ pc = "menu"
    /\ last.op = "book_room" /\ last.err = "ok"
    /\ Lookup(rooms, last.room_no).booked_hours = {MinHour}

\* The registry a terminating step wrote: the session's on choice "6", the
\* handler's own on an interrupt.
SavedRegistry(l, sessionRooms) == IF l.op = "save" THEN sessionRooms ELSE l.ret

\* C15: a save that met no fault leaves in the file the header and exactly
\* one record per room of the registry it saved, nothing of the old content;
\* and save never changes the registry in memory, fault or no fault.
C15_SaveOverwrites ==
    [][last'.op \in {"save", "interrupt"} =>
        /\ rooms' = rooms
        /\ "write" \notin last'.fault =>
             LET rs == SavedRegistry(last', rooms)
             IN  /\ storage'.exists
                 /\ storage'.fieldnames = CSV_HEADERS
                 /\ Len(storage'.rows) = Len(rs)
                 /\ \A i \in 1..Len(rs) :
                       /\ storage'.rows[i].room_no = rs[i].room_no
                       /\ storage'.rows[i].building = rs[i].building
                       /\ StrToInt(storage'.rows[i].capacity).val = rs[i].capacity
                       /\ LET pieces == Split(storage'.rows[i].booked_hours, ";")
                          IN  {StrToInt(pieces[j]).val :
                                  j \in {n \in 1..Len(pieces) : StrToInt(pieces[n]).ok}}
                                = rs[i].booked_hours]_vars

\* C15 witness: a session loaded from the three-row file with a repeated
\* identifier saved its two rooms, and the file has two records.
C15_Witness ==
    /\ pc = "exited" /\ last.op = "save" /\ last.fault = {}
    /\ Len(rooms) = 2 /\ Len(storage.rows) = 2
    /\ rooms[1] = Room(<<"a">>, <<"n">>, 0, {MaxHour})
    /\ rooms[2] = Room(<<"A">>, <<"n">>, 0, {})

\* Rooms with these identifiers, in this order.
RoomsNamed(ids) == [i \in 1..Len(ids) |-> Room(ids[i], <<"M">>, 0, {})]

\* C16: list_rooms returns every room of the registry exactly once, in
\* ascending order of identifier as strings compare ("10" before "9", "A"
\* before "a", "a" before "ab").
C16_ListSorted ==
    /\ list_rooms(RoomsNamed(<<<<"b">>, <<"9">>, <<"a", "b">>, <<"a">>, <<"1", "0">>,
                               <<"A">>>>))
          = RoomsNamed(<<<<"1", "0">>, <<"9">>, <<"A">>, <<"a">>, <<"a", "b">>,
                         <<"b">>>>)
    /\ last.op = "list_rooms" =>
          /\ Len(last.ret) = Len(rooms)
          /\ Range(last.ret) = Range(rooms)
          /\ \A i, j \in 1..Len(last.ret) :
                i < j => TextLess(last.ret[i].room_no, last.ret[j].room_no)

\* C16 witness: three rooms were listed in an order that is not the
\* registry's.
C16_Witness ==
    /\ last.op = "list_rooms" /\ Len(last.ret) = 3 /\ last.ret # rooms
    /\ last.ret[1].room_no = <<"A">> /\ last.ret[3].room_no = <<"b">>

\* C17: every room is found under its own identifier; across every step
\* each room keeps its identifier and its place, none is removed, and a room
\* that add_room creates carries the trimmed identifier it was created under.
C17_IdentifiersStay ==
    [][/\ \A i \in 1..Len(rooms') : Lookup(rooms', rooms'[i].room_no) = rooms'[i]
       /\ Len(rooms') >= Len(rooms)
       /\ \A i \in 1..Len(rooms) : rooms'[i].room_no = rooms[i].room_no
       /\ (last'.op = "add_room" /\ last'.err = "ok") =>
             /\ Len(rooms') = Len(rooms) + 1
             /\ rooms'[Len(rooms')].room_no = last'.room_no
             /\ last'.room_no \notin Keys(rooms)
       /\ last'.op \in {"book_room", "find_rooms", "get_room", "list_rooms",
                        "save", "interrupt"} => Keys(rooms') = Keys(rooms)]_vars

\* C17 witness: a third room was added to the two loaded from the file.
C17_Witness ==
    /\ storage = CleanFile /\ last.op = "add_room" /\ last.err = "ok"
    /\ Len(rooms) = 3 /\ rooms[3].room_no = <<"b">>
    /\ rooms[1].room_no = <<"a">> /\ rooms[2].room_no = <<"A">>

\* C18: a call that raises RoomAlreadyExists, RoomNotFound or
\* TimeslotAlreadyBooked leaves every room as it was and adds none.
C18_FailureChangesNothing ==
    [][/\ last'.err # "ok" =>
            /\ rooms' = rooms
            /\ last'.op \in {"add_room", "get_room", "book_room"}
       /\ (last'.op = "add_room" /\ last'.err # "ok") =>
            (last'.err = "RoomAlreadyExists" /\ HasKey(rooms, last'.room_no))
       /\ last'.op = "get_room" => rooms' = rooms]_vars

\* C18 witness: add_room was refused for room a, which keeps the building,
\* capacity and hours it was loaded with.
C18_Witness ==
    /\ storage = CleanFile /\ last.op = "add_room"
    /\ last.err = "RoomAlreadyExists" /\ last.room_no = <<"a">>
    /\ Lookup(rooms, <<"a">>) = Room(<<"a">>, <<"M">>, 30, {MinHour, MaxHour})

\* A row of a file that a fault-free load does not take as it stands: any
\* row of a file whose header is rejected, and otherwise a row without
\* identifier or with an hour token that is no hour.
NotTaken(file, row) ==
    \/ HeadersMismatch(file.fieldnames)
    \/ Strip(OrElse(row.room_no, <<>>)) = <<>>
    \/ LET pieces == Split(OrElse(row.booked_hours, <<>>), ";")
       IN  \E i \in 1..Len(pieces) :
              LET h == StrToInt(pieces[i])
              IN  Strip(pieces[i]) # <<>>
                    /\ ~(h.ok /\ MinHour <= h.val /\ h.val <= MaxHour)

\* C19: a terminating save without write fault leaves in the file only
\* records of the registry it saved; every record of the old file that the
\* load rejected, skipped or took only in part is gone.
C19_SaveDestroysDropped ==
    [][(last'.op \in {"save", "interrupt"} /\ "write" \notin last'.fault) =>
        LET rs == SavedRegistry(last', rooms)
        IN  /\ Range(storage'.rows) = {RowOf(rs[i]) : i \in 1..Len(rs)}
            /\ \A i \in 1..Len(storage.rows) :
                  NotTaken(storage, storage.rows[i])
                     => storage.rows[i] \notin Range(storage'.rows)]_vars

\* C19 witness: the session that loaded the file with untrimmed fields, bad
\* hour tokens and a row without identifier has saved, and the file has its
\* two rooms.
C19_Witness ==
    /\ pc = "exited" /\ last.op = "save" /\ last.fault = {}
    /\ Len(rooms) = 2 /\ Len(storage.rows) = 2
    /\ Lookup(rooms, <<"A">>).capacity = -5
    /\ storage.rows[1].booked_hours = <<"0", ";", "2", "3">>
    /\ storage.rows[2].booked_hours = <<>>

\* C20: after a load without fault, an identifier that several rows carry
\* has exactly one room, whose building, capacity and hours are those of the
\* last such row alone.
C20_LastRowWins ==
    (last.op = "load" /\ storage.exists /\ last.fault = {}
        /\ ~HeadersMismatch(storage.fieldnames)) =>
      \A k \in RowIds(storage.rows) :
          LET row == LastRowOf(storage.rows, k)
              cap == StrToInt(OrElse(row.capacity, <<"0">>))
          IN  /\ Cardinality({i \in 1..Len(rooms) : rooms[i].room_no = k}) = 1
              /\ Lookup(rooms, k).building = Strip(OrElse(row.building, <<>>))
              /\ Lookup(rooms, k).capacity = IF cap.ok THEN cap.val ELSE 0
              /\ Lookup(rooms, k).booked_hours
                    = TokenHours(OrElse(row.booked_hours, <<>>))

\* C20 witness: the file with two rows for room a was loaded; the room has
\* the second row's building, capacity and hour, not the first row's.
C20_Witness ==
    /\ last.op = "load" /\ storage = DuplicateFile /\ last.fault = {}
    /\ Len(rooms) = 2
    /\ Lookup(rooms, <<"a">>) = Room(<<"a">>, <<"n">>, 0, {MaxHour})

====
